---- MODULE Spec2Model ----
(***************************************************************************)
(* Result aggregation, ranking display and CSV export of the resume        *)
(* ranking front end: the live-results view (ResultDisplay.jsx) and the    *)
(* historical-details view (RankingDetailsClient).                         *)
(*                                                                         *)
(* Strings are sequences of one-character strings, so that quoting,        *)
(* formatting and sorting act on characters.  An optional field of a       *)
(* JavaScript object is <<>> when absent and <<v>> when present.  A score  *)
(* in [0,1] is an integer number of 1/ScoreUnit.                           *)
(***************************************************************************)
EXTENDS Integers, Sequences, FiniteSets, TLC

\* ------------------------------------------------------------------ bounds

\* Candidates per result set.
MaxCands == 2
\* Algorithm identifiers the backend may use as keys of `scores`.
MaxAlgs == 2
\* Characters of a filename drawn from FileChars.
MaxNameLen == 2
\* One score unit: scores are k/ScoreUnit; (score * 100).toFixed(1) keeps tenths.
ScoreUnit == 10000
\* Files the user may have chosen at once.
MaxFiles == 1
\* POSTs to /api/process-resumes sent in one run.
MaxPosts == 2
\* The number of method checkboxes the user clicks.
MaxToggled == 2
\* Files the dropzone accepts in one run, and in one drop.
MaxDrops == 4
MaxDropSize == 2
\* getDocs calls pending at once for one user.
MaxFetches == 2

\* ----------------------------------------------------------------- strings

None == <<>>
Some(v) == <<v>>
IsSome(o) == o /= <<>>
Get(o) == o[1]

Range(s) == {s[i] : i \in 1..Len(s)}
Front(s) == SubSeq(s, 1, Len(s) - 1)
Last(s) == s[Len(s)]

\* The characters the model uses, in UTF-16 code unit order.
Alphabet ==
  << "\n", " ", "\"", "#", "%", "(", ")", ",", ".", "/",
     "0", "1", "2", "3", "4", "5", "6", "7", "8", "9",
     "A", "B", "C", "D", "E", "F", "G", "H", "I", "J", "K", "L", "M",
     "N", "O", "P", "Q", "R", "S", "T", "U", "V", "W", "X", "Y", "Z", "_",
     "a", "b", "c", "d", "e", "f", "g", "h", "i", "j", "k", "l", "m",
     "n", "o", "p", "q", "r", "s", "t", "u", "v", "w", "x", "y", "z" >>

\* The rank of a character in code unit order.
CodeUnit(ch) == CHOOSE i \in 1..Len(Alphabet) : Alphabet[i] = ch

LowerCase == << "a", "b", "c", "d", "e", "f", "g", "h", "i", "j", "k", "l", "m",
                "n", "o", "p", "q", "r", "s", "t", "u", "v", "w", "x", "y", "z" >>
UpperCase == << "A", "B", "C", "D", "E", "F", "G", "H", "I", "J", "K", "L", "M",
                "N", "O", "P", "Q", "R", "S", "T", "U", "V", "W", "X", "Y", "Z" >>

\* String.prototype.toUpperCase
toUpperCase(s) ==
  [i \in 1..Len(s) |->
     IF s[i] \in Range(LowerCase)
       THEN UpperCase[CHOOSE k \in 1..Len(LowerCase) : LowerCase[k] = s[i]]
       ELSE s[i]]

\* a < b for strings, as Array.prototype.sort() without a comparator orders them.
RECURSIVE StrLess(_, _)
StrLess(a, b) ==
  IF b = <<>> THEN FALSE
  ELSE IF a = <<>> THEN TRUE
  ELSE IF a[1] /= b[1] THEN CodeUnit(a[1]) < CodeUnit(b[1])
  ELSE StrLess(Tail(a), Tail(b))

Digits == << "0", "1", "2", "3", "4", "5", "6", "7", "8", "9" >>

\* String(n) for a non-negative integer.
RECURSIVE NatToStr(_)
NatToStr(n) ==
  IF n < 10 THEN << Digits[n + 1] >>
  ELSE NatToStr(n \div 10) \o << Digits[(n % 10) + 1] >>

\* (score * 100).toFixed(1): the percentage rounded to one decimal place.
toFixed1(score) ==
  LET tenths == (score * 1000 + ScoreUnit \div 2) \div ScoreUnit
  IN  NatToStr(tenths \div 10) \o << "." >> \o NatToStr(tenths % 10)

NA == << "N", "/", "A" >>
Undefined == << "u", "n", "d", "e", "f", "i", "n", "e", "d" >>

\* Array.prototype.join
RECURSIVE join(_, _)
join(parts, sep) ==
  IF parts = <<>> THEN <<>>
  ELSE IF Len(parts) = 1 THEN parts[1]
  ELSE parts[1] \o sep \o join(Tail(parts), sep)

\* -------------------------------------------------------------- data model

\* Algorithm identifiers (MethodSelector.jsx), in the order a backend may emit them.
AlgIds ==
  << << "s", "v", "m" >>,
     << "b", "e", "r", "t" >>,
     << "s", "b", "e", "r", "t" >>,
     << "n", "e", "r" >>,
     << "x", "l", "m" >> >>

Algs == {AlgIds[k] : k \in 1..MaxAlgs}

\* Score values: 0, 1/3 and 1.
ScoreVals == {0, ScoreUnit \div 3, ScoreUnit}

ParseFailed == << "p", "a", "r", "s", "e", " ", "f", "a", "i", "l", "e", "d" >>

\* The filename of the k-th uploaded file when filenames are not under test.
PlainName(k) == << "r", Digits[k + 1] >>

\* One CandidateResult.  id is the position of the candidate in the backend's
\* payload (the document id of its detail record); scores is the list of
\* [key, value] entries of the `scores` object in key order; extracted_skills
\* is the length of the skill list.  A detail record has the same fields under
\* the names finalScore and extractedSkills.
Cand(id, filename, rank, final_score, scores, error, extracted_skills) ==
  [ id |-> id, filename |-> filename, rank |-> rank, final_score |-> final_score,
    scores |-> scores, error |-> error, extracted_skills |-> extracted_skills,
    word_count |-> None ]

\* The candidate with file_info.word_count = w (None: no file_info or no count).
WithWordCount(c, w) == [c EXCEPT !.word_count = w]

Perms(n) == {p \in [1..n -> 1..n] : \A i, j \in 1..n : p[i] = p[j] => i = j}

\* result.scores?.[alg]
scoreOf(c, alg) ==
  IF c.scores = None THEN None
  ELSE LET e == Get(c.scores)
           hits == {i \in 1..Len(e) : e[i][1] = alg}
       IN  IF hits = {} THEN None ELSE Some(e[CHOOSE i \in hits : TRUE][2])

\* Object.keys(scores || {})
keysOf(c) ==
  IF c.scores = None THEN <<>>
  ELSE [i \in 1..Len(Get(c.scores)) |-> Get(c.scores)[i][1]]

\* JavaScript truthiness of an optional number: undefined and 0 are falsy.
Truthy(o) == IsSome(o) /\ Get(o) /= 0

\* ----------------------------------------------------------------- ranking

\* (a.rank || 0)
rankKey(d) == IF Truthy(d.rank) THEN Get(d.rank) ELSE 0

\* A sort that puts an element before its equals (mutation of insertByRank).
RECURSIVE insertByRankUnstable(_, _)
insertByRankUnstable(s, x) ==
  IF s = <<>> THEN << x >>
  ELSE IF rankKey(Last(s)) < rankKey(x) THEN Append(s, x)
  ELSE Append(insertByRankUnstable(Front(s), x), Last(s))

\* Insert x into a list sorted by rankKey, after every element that does not
\* compare greater: Array.prototype.sort is stable.
RECURSIVE insertByRank(_, _)
insertByRank(s, x) ==
  IF s = <<>> THEN << x >>
  ELSE IF rankKey(Last(s)) <= rankKey(x) THEN Append(s, x)
  ELSE Append(insertByRank(Front(s), x), Last(s))

\* docs.sort((a, b) => (a.rank || 0) - (b.rank || 0))
RECURSIVE sortByRank(_)
sortByRank(s) ==
  IF s = <<>> THEN <<>> ELSE insertByRank(sortByRank(Front(s)), Last(s))

\* ------------------------------------------------------ algorithm universe

\* Set.prototype.add on a Set kept in insertion order.
setAdd(s, x) == IF x \in Range(s) THEN s ELSE Append(s, x)

RECURSIVE addAll(_, _)
addAll(s, xs) == IF xs = <<>> THEN s ELSE addAll(setAdd(s, xs[1]), Tail(xs))

\* results.forEach(result => Object.keys(result.scores).forEach(alg => algorithms.add(alg)))
RECURSIVE collectKeys(_, _)
collectKeys(s, rs) ==
  IF rs = <<>> THEN s ELSE collectKeys(addAll(s, keysOf(rs[1])), Tail(rs))

RECURSIVE insertStr(_, _)
insertStr(s, x) ==
  IF s = <<>> THEN << x >>
  ELSE IF StrLess(x, Last(s)) THEN Append(insertStr(Front(s), x), Last(s))
  ELSE Append(s, x)

\* Array.prototype.sort() on strings.
RECURSIVE sortStrings(_)
sortStrings(s) ==
  IF s = <<>> THEN <<>> ELSE insertStr(sortStrings(Front(s)), Last(s))

\* The key set in insertion order, the final sort() forgotten (mutation of getAlgorithms).
getAlgorithmsUnsorted(rs) == collectKeys(<<>>, rs)

\* ResultDisplay.getAlgorithms
getAlgorithms(rs) == sortStrings(collectKeys(<<>>, rs))

\* RankingDetailsClient: const allAlgorithms = ... Object.keys(details[0].scores || {}).sort()
allAlgorithmsOf(ds) == IF Len(ds) > 0 THEN sortStrings(keysOf(ds[1])) ELSE <<>>

\* RankingDetailsClient.exportToCSV: Object.keys(details[0].scores || {})
exportAlgorithmsOf(ds) == keysOf(ds[1])

\* --------------------------------------------------------------- rendering

\* String(value) of an optional number inside a template literal.
numStr(o) == IF IsSome(o) THEN NatToStr(Get(o)) ELSE Undefined

\* {value} of an optional number as a JSX child: undefined renders nothing.
jsxNum(o) == IF IsSome(o) THEN NatToStr(Get(o)) ELSE <<>>

Words == << " ", "w", "o", "r", "d", "s" >>

\* result.file_info?.word_count || 0
wordCount(c) == IF Truthy(c.word_count) THEN Get(c.word_count) ELSE 0

\* x ? (x * 100).toFixed(1) : 'N/A'
truthyCell(o) == IF Truthy(o) THEN toFixed1(Get(o)) ELSE NA

\* x !== undefined ? (x * 100).toFixed(1) : 'N/A'
definedCell(o) == IF IsSome(o) THEN toFixed1(Get(o)) ELSE NA

\* result.extracted_skills?.length || 0
skillsCount(c) == IF Truthy(c.extracted_skills) THEN Get(c.extracted_skills) ELSE 0

\* One row of the live table or one card: ResultDisplay maps results.results in order.
liveRow(c, algs) ==
  [ id |-> c.id,
    rank |-> << "#" >> \o jsxNum(c.rank),
    filename |-> c.filename,
    words |-> NatToStr(wordCount(c)) \o Words,
    cells |-> [j \in 1..Len(algs) |-> truthyCell(scoreOf(c, algs[j]))],
    final |-> truthyCell(c.final_score),
    skills |-> NatToStr(skillsCount(c)) ]

liveRows(rs) == [i \in 1..Len(rs) |-> liveRow(rs[i], getAlgorithms(rs))]

\* One row of the historical table: RankingDetailsClient maps details in order.
histRow(d, algs) ==
  [ id |-> d.id,
    rank |-> << "#" >> \o jsxNum(d.rank),
    filename |-> d.filename,
    words |-> IF IsSome(d.word_count) THEN NatToStr(wordCount(d)) \o Words ELSE <<>>,
    cells |-> [j \in 1..Len(algs) |-> definedCell(scoreOf(d, algs[j]))],
    final |-> truthyCell(d.final_score),
    skills |-> NatToStr(skillsCount(d)) ]

histRows(ds) == [i \in 1..Len(ds) |-> histRow(ds[i], allAlgorithmsOf(ds))]

\* ------------------------------------------------------------ summary stats

\* reduce((acc, r) => acc + (r.final_score || 0), 0)
RECURSIVE sumFinal(_)
sumFinal(rs) ==
  IF rs = <<>> THEN 0
  ELSE sumFinal(Front(rs))
         + (IF Truthy(Last(rs).final_score) THEN Get(Last(rs).final_score) ELSE 0)

\* ((sum / n) * 100).toFixed(1) + '%'
percentOf(sum, n) ==
  LET tenths == (sum * 1000 + (n * ScoreUnit) \div 2) \div (n * ScoreUnit)
  IN  NatToStr(tenths \div 10) \o << "." >> \o NatToStr(tenths % 10) \o << "%" >>

\* The Avg Score tile of both views.
avgScore(rs) == IF Len(rs) > 0 THEN percentOf(sumFinal(rs), Len(rs)) ELSE NA

\* results.summary of the live payload; every field is optional.
Summary(total, processed, used) ==
  [ total_resumes_uploaded |-> total, successfully_processed |-> processed,
    algorithms_used |-> used ]

\* results.summary?.total_resumes_uploaded || 0
totalTile(sm) ==
  IF IsSome(sm) /\ Truthy(Get(sm).total_resumes_uploaded)
    THEN Get(Get(sm).total_resumes_uploaded) ELSE 0

\* results.summary?.successfully_processed || 0
processedTile(sm) ==
  IF IsSome(sm) /\ Truthy(Get(sm).successfully_processed)
    THEN Get(Get(sm).successfully_processed) ELSE 0

\* results.summary?.algorithms_used?.length || 0
methodsTile(sm, rs) ==
  IF IsSome(sm) /\ IsSome(Get(sm).algorithms_used)
    THEN Len(Get(Get(sm).algorithms_used)) ELSE 0

\* --------------------------------------------------------------------- CSV

RankHeader == << "R", "a", "n", "k" >>
FilenameHeader == << "F", "i", "l", "e", "n", "a", "m", "e" >>
PercentSuffix == << " ", "(", "%", ")" >>
FinalScoreHeader == << "F", "i", "n", "a", "l", " ", "S", "c", "o", "r", "e" >> \o PercentSuffix
SkillsCountHeader == << "S", "k", "i", "l", "l", "s", " ", "C", "o", "u", "n", "t" >>

\* `${alg.toUpperCase()} (%)`
algHeaders(algs) == [j \in 1..Len(algs) |-> toUpperCase(algs[j]) \o PercentSuffix]

\* ResultDisplay.exportToCSV: headers
liveHeaders(algs) ==
  << RankHeader, FilenameHeader >> \o algHeaders(algs) \o << FinalScoreHeader, SkillsCountHeader >>

\* ResultDisplay.exportToCSV: one entry of csvData
liveCsvRow(c, algs) ==
  << numStr(c.rank), c.filename >>
    \o [j \in 1..Len(algs) |-> truthyCell(scoreOf(c, algs[j]))]
    \o << truthyCell(c.final_score), NatToStr(skillsCount(c)) >>

\* csvData with the candidates that carry an error left out (mutation of liveCsvData).
liveCsvDataNoErrors(rs, algs) ==
  LET ok == SelectSeq(rs, LAMBDA c : c.error = None)
  IN  [i \in 1..Len(ok) |-> liveCsvRow(ok[i], algs)]

\* ResultDisplay.exportToCSV: csvData
liveCsvData(rs, algs) == [i \in 1..Len(rs) |-> liveCsvRow(rs[i], algs)]

\* RankingDetailsClient.exportToCSV: headers
histHeaders(algs) == << RankHeader, FilenameHeader >> \o algHeaders(algs) \o << FinalScoreHeader >>

\* RankingDetailsClient.exportToCSV: one entry of csvData
histCsvRow(d, algs) ==
  << numStr(d.rank), d.filename >>
    \o [j \in 1..Len(algs) |-> truthyCell(scoreOf(d, algs[j]))]
    \o << truthyCell(d.final_score) >>

\* RankingDetailsClient.exportToCSV: csvData
histCsvData(ds, algs) == [i \in 1..Len(ds) |-> histCsvRow(ds[i], algs)]

\* `"${cell}"`
quoteCell(cell) == << "\"" >> \o cell \o << "\"" >>

\* [headers, ...csvData].map(row => row.map(cell => `"${cell}"`).join(',')).join('\n')
csvContentOf(rows) ==
  join([i \in 1..Len(rows) |->
          join([j \in 1..Len(rows[i]) |-> quoteCell(rows[i][j])], << "," >>)],
       << "\n" >>)

\* -------------------------------------------------------------- API client

\* The texts of the messages; a message is a sequence of such pieces.
PleaseUpload == "Please upload resumes and enter job description"
PleaseSelect == "Please select at least one algorithm"
NoFilesProvided == "No files provided for processing"
JobDescriptionRequired == "Job description is required"
AlgorithmRequired == "At least one algorithm must be selected"
ProcessingFailed == "Processing failed: "
FileTooLarge == "File size too large. Please reduce file sizes or number of files."
InvalidFormat == "Invalid file format. Please upload PDF or DOCX files only."
ServerError == "Server error. Please try again later."
ProcessingTimeout == "Processing timeout. Please try with fewer files or simpler algorithms."
\* axios' own messages
RequestFailed == "Request failed with status code "
TimeoutExceeded == "timeout of 300000ms exceeded"
NetworkError == "Network Error"
\* what a backend may put into the `error` field of an error response
BackendText == "Traceback (most recent call last): File ranker.py, line 88, KeyError"

\* String.prototype.trim on a tuple of characters.
RECURSIVE trim(_)
trim(s) ==
  IF s = <<>> THEN s
  ELSE IF s[1] = " " THEN trim(Tail(s))
  ELSE IF Last(s) = " " THEN trim(Front(s))
  ELSE s

\* An Error object: its message, its response (None, or Some of the status and
\* the `error` field of the body) and its code.
Err(message, response, code) == [message |-> message, response |-> response, code |-> code]

\* new Error(message)
NewError(message) == Err(message, None, "none")

\* What the transport may settle a POST with: a 2xx response with one of the
\* bodies, a response with an error status and a body, a timeout of the
\* request, or no response at all.
Statuses == {400, 413, 422, 500, 503}
ErrorFields == {None, Some(BackendText)}
Bodies == {"ResultSet", "noResults", "notSequence"}
Outcome(kind, status, error, body) ==
  [kind |-> kind, status |-> status, error |-> error, body |-> body]
Outcomes ==
  { Outcome("ok", 200, None, b) : b \in Bodies }
  \cup { Outcome("http", st, e, "none") : st \in Statuses, e \in ErrorFields }
  \cup { Outcome("timeout", 0, None, "none"), Outcome("network", 0, None, "none") }

\* The error axios rejects the request with.
axiosError(o) ==
  IF o.kind = "http"
    THEN Err(<< RequestFailed >> \o NatToStr(o.status),
             Some([status |-> o.status, error |-> o.error]), "ERR_BAD_RESPONSE")
  ELSE IF o.kind = "timeout" THEN Err(<< TimeoutExceeded >>, None, "ECONNABORTED")
  ELSE Err(<< NetworkError >>, None, "ERR_NETWORK")

\* An interceptor that hands every error on as it is (mutation of interceptor).
interceptorPassThrough(e) == e

\* api.interceptors.response: the error handler.
interceptor(e) ==
  LET status == IF IsSome(e.response) THEN Get(e.response).status ELSE 0
  IN  IF IsSome(e.response) /\ status = 413 THEN NewError(<< FileTooLarge >>)
      ELSE IF IsSome(e.response) /\ status = 422 THEN NewError(<< InvalidFormat >>)
      ELSE IF IsSome(e.response) /\ status >= 500 THEN NewError(<< ServerError >>)
      ELSE e

\* processResumes: the catch block around api.post.
processResumesCatch(e) ==
  IF IsSome(e.response) /\ IsSome(Get(e.response).error)
    THEN NewError(<< Get(Get(e.response).error) >>)
  ELSE IF e.code = "ECONNABORTED" THEN NewError(<< ProcessingTimeout >>)
  ELSE NewError(<< ProcessingFailed >> \o e.message)

\* processResumes: the checks before the request; None when they pass.
processResumesCheck(fs, jd, ms) ==
  IF fs = 0 THEN Some(NewError(<< NoFilesProvided >>))
  ELSE IF Len(trim(jd)) = 0 THEN Some(NewError(<< JobDescriptionRequired >>))
  ELSE IF Len(ms) = 0 THEN Some(NewError(<< AlgorithmRequired >>))
  ELSE None

\* The error processResumes rejects with when the transport settles with o.
processResumesError(o) == processResumesCatch(interceptor(axiosError(o)))

\* handleSubmit: alert('Processing failed: ' + e.message)
failureAlert(e) == << ProcessingFailed >> \o e.message

\* ------------------------------------------------------------------- state

VARIABLES
  page,        \* the route shown: "predict", "details" or "dashboard"
  results,     \* ResultDisplay's prop results.results: None or Some(list of candidates)
  viewMode,    \* ResultDisplay: "cards" or "table"
  storeDocs,   \* the detail documents of the ranking, in the order getDocs returns them
  user,        \* RankingDetailsClient: "none", "unverified" or "verified"
  ranking,     \* RankingDetailsClient: TRUE when the ranking summary is loaded
  details,     \* RankingDetailsClient: the detail records held in state
  loading,     \* RankingDetailsClient: loading flag
  csvName,     \* prefix of the name of the last downloaded file, "none" before any
  csvRows,     \* [headers, ...csvData] of the last export: its rows of cells
  csvContent,  \* text of the last downloaded file
  summary,     \* ResultDisplay's prop results.summary: None or Some(summary record)
  resultsShape,   \* PredictPage's results state: "null", "ResultSet", or the body
                  \* accepted in its place: "noResults" or "notSequence"
  files,          \* PredictPage: the number of files chosen
  jobDescription, \* PredictPage: the text of the job description
  methods,        \* PredictPage: the selected algorithm ids
  loadingPredict, \* PredictPage: loading flag
  currentStep,    \* PredictPage: step of the progress bar
  closureStep,    \* currentStep as the handlers of the committed render captured it
  alertText,      \* the text of the last alert(), <<>> before any
  posts,          \* the number of POSTs to /api/process-resumes sent so far
  inflight,       \* the number of those still awaiting their response
  apiArgs,        \* processResumes called on its own: its arguments, each None when missing
  apiState,       \* that call: "called", "sent", "resolved" or "rejected"
  apiError,       \* the message of the error that call rejected with, <<>> if none
  fileList,       \* FileUpload alone: the files state of its parent, as file ids
  closureFiles,   \* the files prop that onDrop and removeFile of the committed render hold
  keptFiles,      \* history: the accepted files not removed or cleared since, in drop order
  dropped,        \* history: the number of files accepted so far (ids are 1, 2, ...)
  dashUser,       \* DashboardPage: user, None or Some([uid, emailVerified])
  rankings,       \* DashboardPage: None for the initial [], Some(uid) for the list fetched for uid
  dashLoading,    \* DashboardPage: loading flag
  sortOrder,      \* DashboardPage: "latest" or "oldest"
  fetches,        \* the number of getDocs calls awaiting their result, per uid
  profileUser,    \* ProfilePage: "none", "unverified" or "verified"
  profileLoading, \* ProfilePage: loading flag
  sendingVerification, \* ProfilePage: handleSendVerification awaits sendEmailVerification
  deletingAccount,     \* ProfilePage: flag set by handleDeleteAccount
  deleteStage,    \* handleDeleteAccount: "idle", "deleteDoc" or "deleteUser" (the call awaited)
  confirmAnswer,  \* the last answer to window.confirm: "none", "cancel" or "ok"
  profileMessage, \* ProfilePage: message
  profileError,   \* ProfilePage: error
  userDoc,        \* Firestore: TRUE while the document users/{uid} exists
  authAccount     \* Firebase Auth: TRUE while the account exists

\* The state of the PredictPage form and of its submissions.
formVars == << files, jobDescription, methods, loadingPredict, currentStep, closureStep, alertText,
               posts, inflight >>

\* The processResumes call made outside the page.
apiVars == << apiArgs, apiState, apiError >>

\* FileUpload mounted on its own.
uploadVars == << fileList, closureFiles, keptFiles, dropped >>

\* DashboardPage and the fetches it started.
dashVars == << dashUser, rankings, dashLoading, sortOrder, fetches >>

\* ProfilePage, the user's document and the user's account.
profileVars == << profileUser, profileLoading, sendingVerification, deletingAccount,
                  deleteStage, confirmAnswer, profileMessage, profileError, userDoc, authAccount >>

\* The state outside the predict page and the two result views.
otherPages == << apiVars, uploadVars, dashVars, profileVars >>

vars == << page, results, viewMode, storeDocs, user, ranking, details, loading,
           csvName, csvRows, csvContent, summary, resultsShape, formVars, otherPages >>

\* useState(['bert', 'cosine'])
DefaultMethods == << "bert", "cosine" >>

\* No call of processResumes outside the page.
ApiIdle ==
  /\ apiArgs = [files |-> None, jobDescription |-> None, methods |-> None]
  /\ apiState = "resolved"
  /\ apiError = <<>>

\* FileUpload as mounted: no file.
UploadIdle ==
  /\ fileList = <<>>
  /\ closureFiles = <<>>
  /\ keptFiles = <<>>
  /\ dropped = 0

\* The users who sign in on this browser.
Uids == {"u1", "u2"}

\* DashboardPage as mounted: useState(null), useState([]), useState(true),
\* useState('latest').
DashIdle ==
  /\ dashUser = None
  /\ rankings = None
  /\ dashLoading = TRUE
  /\ sortOrder = "latest"
  /\ fetches = [u \in Uids |-> 0]

\* ProfilePage as mounted, for a user with a stored document.
ProfileIdle ==
  /\ profileUser = "none"
  /\ profileLoading = TRUE
  /\ sendingVerification = FALSE
  /\ deletingAccount = FALSE
  /\ deleteStage = "idle"
  /\ confirmAnswer = "none"
  /\ profileMessage = <<>>
  /\ profileError = <<>>
  /\ userDoc = TRUE
  /\ authAccount = TRUE

\* Nothing outside the predict page and the two result views is in use.
OthersIdle == ApiIdle /\ UploadIdle /\ DashIdle /\ ProfileIdle

\* The state after the two components are constructed around a result set rs
\* with summary sm (on the predict page: after the job that returned them):
\* the live view gets it as its prop, the historical view finds it in the store.
InitViews(rs, sm, route) ==
  /\ page = route
  /\ results = IF route = "predict" THEN Some(rs) ELSE None
  /\ storeDocs = IF route = "details" THEN rs ELSE <<>>
  /\ viewMode = "cards"
  /\ user = "none"
  /\ ranking = FALSE
  /\ details = <<>>
  /\ loading = TRUE
  /\ csvName = "none"
  /\ csvRows = <<>>
  /\ csvContent = <<>>
  /\ summary = IF route = "predict" THEN sm ELSE None
  /\ resultsShape = IF route = "predict" THEN "ResultSet" ELSE "null"
  /\ files = IF route = "predict" THEN 1 ELSE 0
  /\ jobDescription = IF route = "predict" THEN << "j" >> ELSE <<>>
  /\ methods = DefaultMethods
  /\ loadingPredict = FALSE
  /\ currentStep = IF route = "predict" THEN 5 ELSE 1
  /\ closureStep = currentStep
  /\ alertText = <<>>
  /\ posts = IF route = "predict" THEN 1 ELSE 0
  /\ inflight = 0

\* The same with nothing else in use.
InitPayload(rs, sm, route) == InitViews(rs, sm, route) /\ OthersIdle

\* The same around a payload that carries no summary.
InitWith(rs, route) == InitPayload(rs, None, route)

\* The final scores of the candidates that differ in rank.
RankFinals == {0, ScoreUnit \div 3}

\* Candidates that differ in rank, final_score and error.
RankBodies ==
  { Cand(0, <<>>, r, f, IF IsSome(f) THEN Some(<< << AlgIds[1], Get(f) >> >>) ELSE Some(<<>>),
         None, Some(1)) :
      r \in {None} \cup {Some(k) : k \in 1..MaxCands},
      f \in {None} \cup {Some(v) : v \in RankFinals} }
  \cup
  { Cand(0, <<>>, r, None, Some(<<>>), Some(ParseFailed), None) :
      r \in {None} \cup {Some(k) : k \in 1..MaxCands} }

\* The candidates of a payload numbered by p, with plain filenames.
Numbered(s, p) ==
  [i \in 1..Len(s) |-> [s[i] EXCEPT !.id = p[i], !.filename = PlainName(p[i])]]

Identity(n) == [i \in 1..n |-> i]

\* The live view gets the payload as sent; the store returns the detail
\* records of a payload in the payload's order or in the reverse order.
StoreOrders(n) == {Identity(n), [i \in 1..n |-> n + 1 - i]}

InitRank ==
  \E n \in 0..MaxCands :
    \E s \in [1..n -> RankBodies] :
      \/ InitWith(Numbered(s, Identity(n)), "predict")
      \/ \E p \in StoreOrders(n) : InitWith(Numbered(s, p), "details")

\* Algorithm scores: candidates differ in the keys of `scores`, their order and
\* their values drawn from vals, or have no `scores` at all.
KeySeqs ==
  UNION { {ks \in [1..n -> Algs] : \A i, j \in 1..n : ks[i] = ks[j] => i = j} : n \in 0..MaxAlgs }

ScoreMaps(vals) ==
  UNION { {[i \in 1..Len(ks) |-> << ks[i], v[i] >>] : v \in [1..Len(ks) -> vals]} : ks \in KeySeqs }

AlgBodies(vals) ==
  { Cand(0, <<>>, None, Some(ScoreUnit), sc, None, Some(2)) :
      sc \in {None} \cup {Some(m) : m \in ScoreMaps(vals)} }

\* The backend's ranks: the position in the payload.
Ranked(s) == [i \in 1..Len(s) |-> [s[i] EXCEPT !.rank = Some(i)]]

InitScores(vals) ==
  \E n \in 0..MaxCands :
    \E s \in [1..n -> AlgBodies(vals)] :
      \E route \in {"predict", "details"} :
        InitWith(Ranked(Numbered(s, Identity(n))), route)

InitKeys == InitScores({ScoreUnit \div 3})

InitAlgs == InitScores({0, ScoreUnit \div 3})

\* Summary: candidates differ in scores and error, and the payload in its summary.
SummaryBodies ==
  { WithWordCount(
      Cand(0, <<>>, None, Some(ScoreUnit \div 3), Some(<< << AlgIds[1], ScoreUnit \div 3 >> >>),
           None, Some(1)),
      Some(3)),
    Cand(0, <<>>, None, Some(ScoreUnit),
         Some(<< << AlgIds[2], ScoreUnit >>, << AlgIds[1], ScoreUnit >> >>), None, Some(1)),
    Cand(0, <<>>, None, None, Some(<<>>), Some(ParseFailed), None) }

SummaryCounts == {None, Some(0), Some(MaxCands)}

SummaryUsed == {None, Some(<<>>), Some(<< AlgIds[1] >>), Some(<< AlgIds[1], AlgIds[2] >>)}

Summaries ==
  {None} \cup { Some(Summary(t, p, u)) : t \in SummaryCounts, p \in SummaryCounts,
                                         u \in SummaryUsed }

InitSummary ==
  \E n \in 0..MaxCands :
    \E s \in [1..n -> SummaryBodies] :
      \/ \E sm \in Summaries : InitPayload(Ranked(Numbered(s, Identity(n))), sm, "predict")
      \/ InitWith(Ranked(Numbered(s, Identity(n))), "details")

\* Filenames: candidates differ in the characters of the filename.
FileChars == {"a", ",", "\""}

FileNames == UNION { [1..n -> FileChars] : n \in 1..MaxNameLen }

InitCsv ==
  \E n \in 0..MaxCands :
    \E names \in [1..n -> FileNames] :
      \E route \in {"predict", "details"} :
        InitWith([i \in 1..n |->
                    Cand(i, names[i], Some(i), Some(ScoreUnit),
                         Some(<< << AlgIds[1], ScoreUnit \div 3 >> >>), None, Some(2))],
                 route)

\* ----------------------------------------------------------------- actions

\* ResultDisplay: the Card View and Table View buttons.
setViewMode(m) ==
  /\ page = "predict"
  /\ IsSome(results)
  /\ ~loadingPredict
  /\ viewMode' = m
  /\ UNCHANGED << page, results, storeDocs, user, ranking, details, loading,
                  csvName, csvRows, csvContent, summary, resultsShape, formVars, otherPages >>

\* ResultDisplay.exportToCSV
exportToCSV ==
  /\ page = "predict"
  /\ IsSome(results)
  /\ ~loadingPredict
  /\ LET rs == Get(results)
         algorithms == getAlgorithms(rs)
     IN  csvRows' = << liveHeaders(algorithms) >> \o liveCsvData(rs, algorithms)
  /\ csvContent' = csvContentOf(csvRows')
  /\ csvName' = "resume_ranking_results"
  /\ UNCHANGED << page, results, viewMode, storeDocs, user, ranking, details, loading,
                  summary, resultsShape, formVars, otherPages >>

\* What the store answers to fetchDetails: "ok", "missing" (no such ranking),
\* "getDocError" or "getDocsError"; it is not asked ("unasked") unless the user
\* is verified.
StoreOutcomes(u) ==
  IF u = "verified" THEN {"ok", "missing", "getDocError", "getDocsError"} ELSE {"unasked"}

\* RankingDetailsClient: the auth callback, with fetchDetails when the user is
\* verified.
onAuthStateChanged(u, outcome) ==
  /\ page = "details"
  /\ user' = u
  /\ loading' = FALSE
  /\ IF u = "verified"
       THEN /\ ranking' = IF outcome \in {"ok", "getDocsError"} THEN TRUE ELSE ranking
            /\ details' = IF outcome = "ok" THEN sortByRank(storeDocs) ELSE details
            /\ page' = IF outcome = "missing" THEN "dashboard" ELSE page
       ELSE UNCHANGED << ranking, details, page >>
  /\ UNCHANGED << results, viewMode, storeDocs, csvName, csvRows, csvContent,
                  summary, resultsShape, formVars, otherPages >>

\* RankingDetailsClient.exportToCSV, behind the render gates of the page.
exportDetailsToCSV ==
  /\ page = "details"
  /\ ~loading
  /\ user = "verified"
  /\ ranking
  /\ Len(details) /= 0
  /\ LET algorithms == exportAlgorithmsOf(details)
     IN  csvRows' = << histHeaders(algorithms) >> \o histCsvData(details, algorithms)
  /\ csvContent' = csvContentOf(csvRows')
  /\ csvName' = "ranking"
  /\ UNCHANGED << page, results, viewMode, storeDocs, user, ranking, details, loading,
                  summary, resultsShape, formVars, otherPages >>

\* ------------------------------------------------------- PredictPage actions

\* The ResultSet the backend answers a job with when it answers with one.
ServerResults ==
  Ranked(Numbered([i \in 1..MaxCands |->
                     Cand(0, <<>>, None, Some(ScoreUnit \div 3),
                          Some(<< << AlgIds[1], ScoreUnit \div 3 >> >>), None, Some(1))],
                  Identity(MaxCands)))

ServerSummary == Some(Summary(Some(MaxCands), Some(MaxCands), Some(<< AlgIds[1] >>)))

\* The texts the job description field may hold.
JobTexts == { <<>>, << " " >>, << "j" >> }

\* The Quick Select buttons of MethodSelector.
QuickSelects ==
  { << "bert", "cosine", "ner" >>, << "distilbert", "jaccard" >>,
    << "bert", "sbert", "xgboost", "ner" >> }

Max(a, b) == IF a >= b THEN a ELSE b

\* The submit button: disabled={loading || !files.length || !jobDescription.trim()
\* || methods.length === 0}
disabled ==
  loadingPredict \/ files = 0 \/ Len(trim(jobDescription)) = 0 \/ Len(methods) = 0

\* A handleSubmit that sends the request a second time when the first attempt
\* is sent (mutation of handleSubmit).
handleSubmitTwice(fs, jd, ms, step) ==
  /\ fs /= 0 /\ Len(trim(jd)) /= 0 /\ Len(ms) /= 0
  /\ posts + 1 < MaxPosts
  /\ loadingPredict' = TRUE
  /\ currentStep' = 4
  /\ viewMode' = "cards"
  /\ posts' = posts + 2
  /\ inflight' = inflight + 1
  /\ UNCHANGED alertText

\* PredictPage.handleSubmit up to its await, run on the submit event of the
\* form with the state fs, jd, ms of the render it belongs to; step is
\* currentStep as the event's earlier handlers left it.  ResultDisplay is
\* unmounted while loading, which resets its viewMode.
handleSubmit(fs, jd, ms, step) ==
  IF fs = 0 \/ Len(trim(jd)) = 0
    THEN /\ alertText' = << PleaseUpload >>
         /\ currentStep' = step
         /\ UNCHANGED << loadingPredict, viewMode, posts, inflight >>
  ELSE IF Len(ms) = 0
    THEN /\ alertText' = << PleaseSelect >>
         /\ currentStep' = step
         /\ UNCHANGED << loadingPredict, viewMode, posts, inflight >>
  ELSE IF IsSome(processResumesCheck(fs, jd, ms))
    THEN /\ alertText' = failureAlert(Get(processResumesCheck(fs, jd, ms)))
         /\ currentStep' = 1
         /\ loadingPredict' = FALSE
         /\ viewMode' = "cards"
         /\ UNCHANGED << posts, inflight >>
  ELSE /\ posts < MaxPosts
       /\ loadingPredict' = TRUE
       /\ currentStep' = 4
       /\ viewMode' = "cards"
       /\ posts' = posts + 1
       /\ inflight' = inflight + 1
       /\ UNCHANGED alertText

\* What no PredictPage form action touches.
displayVars == << otherPages, page, results, storeDocs, user, ranking, details, loading,
                 csvName, csvRows, csvContent, summary, resultsShape >>

\* FileUpload.onDrop with one accepted file, called by the dropzone once it
\* has read the dropped files: onFilesChange is
\* () => setCurrentStep(Math.max(currentStep, 1)).  The render follows later.
onDrop ==
  /\ page = "predict"
  /\ files < MaxFiles
  /\ files' = files + 1
  /\ currentStep' = Max(closureStep, 1)
  /\ UNCHANGED << displayVars, viewMode, jobDescription, methods, loadingPredict,
                  closureStep, alertText, posts, inflight >>

\* FileUpload: the Clear All button.  It has no type attribute and stands
\* inside the form; the click removes it from the document, and whether the
\* form is submitted after that (submits) is left open.
clearAll(submits) ==
  /\ page = "predict"
  /\ files > 0
  /\ files' = 0
  /\ IF submits
       THEN handleSubmit(0, jobDescription, methods, Max(closureStep, 1))
       ELSE /\ currentStep' = Max(closureStep, 1)
            /\ UNCHANGED << loadingPredict, viewMode, alertText, posts, inflight >>
  /\ closureStep' = currentStep'
  /\ UNCHANGED << displayVars, jobDescription, methods >>

\* The job description textarea: onChange.
onChangeJobDescription(v) ==
  /\ page = "predict"
  /\ v /= jobDescription
  /\ jobDescription' = v
  /\ currentStep' = IF Len(trim(v)) /= 0 THEN Max(closureStep, 2) ELSE currentStep
  /\ closureStep' = currentStep'
  /\ UNCHANGED << displayVars, viewMode, files, methods, loadingPredict, alertText,
                  posts, inflight >>

\* MethodSelector: a Quick Select button, shown in the selection summary
\* (selectedMethods.length > 0).  It has no type attribute and stands inside
\* the form: after its onClick the form is submitted.
quickSelect(ms) ==
  /\ page = "predict"
  /\ Len(methods) > 0
  /\ methods' = ms
  /\ handleSubmit(files, jobDescription, ms, Max(closureStep, 3))
  /\ closureStep' = currentStep'
  /\ UNCHANGED << displayVars, files, jobDescription >>

\* MethodSelector.methodCategories: the ids of each category, as listed.
methodCategories ==
  << << "bert", "distilbert", "sbert" >>,
     << "xgboost", "random_forest", "svm", "neural_network" >>,
     << "cosine", "jaccard", "ner" >> >>

\* The checkboxes the user clicks, defaults first.
ToggleOrder ==
  << "bert", "cosine", "ner", "distilbert", "jaccard", "sbert", "xgboost",
     "random_forest", "svm", "neural_network" >>

ToggledIds == {ToggleOrder[k] : k \in 1..MaxToggled}

includes(list, x) == \E i \in 1..Len(list) : list[i] = x

\* An updater that appends the id whether or not it is selected (mutation of
\* toggleUpdater).
toggleUpdaterAppend(prev, methodId) == Append(prev, methodId)

\* toggleMethod's updater: prev => prev.includes(methodId)
\*   ? prev.filter(m => m !== methodId) : [...prev, methodId]
toggleUpdater(prev, methodId) ==
  IF includes(prev, methodId)
    THEN SelectSeq(prev, LAMBDA m : m /= methodId)
    ELSE Append(prev, methodId)

\* selectCategory's updaters: prev => prev.filter(id => !categoryIds.includes(id))
\* when all of the category is selected in the rendered selection, else
\* prev => [...new Set([...prev, ...categoryIds])]
categoryUpdater(selectedMethods, prev, categoryIds) ==
  IF \A i \in 1..Len(categoryIds) : includes(selectedMethods, categoryIds[i])
    THEN SelectSeq(prev, LAMBDA id : ~includes(categoryIds, id))
    ELSE addAll(<<>>, prev \o categoryIds)

\* Function.length of an updater `prev => ...`: its one declared parameter.
updaterLength == 1

\* PredictPage's setSelectedMethods wrapper called with an updater function:
\* setMethods(newMethods); if (newMethods.length > 0)
\* setCurrentStep(Math.max(currentStep, 3)), where newMethods is the function.
stepAfterUpdater(newValue) ==
  IF updaterLength > 0 THEN Max(closureStep, 3) ELSE currentStep

\* MethodSelector: the checkbox of a method.
toggleMethod(methodId) ==
  /\ page = "predict"
  /\ methods' = toggleUpdater(methods, methodId)
  /\ currentStep' = stepAfterUpdater(methods')
  /\ closureStep' = currentStep'
  /\ UNCHANGED << displayVars, viewMode, files, jobDescription, loadingPredict,
                  alertText, posts, inflight >>

\* MethodSelector: the Select All / Deselect All button of category k.  It has
\* no type attribute and stands inside the form: after its onClick the form
\* is submitted.
selectCategory(k) ==
  /\ page = "predict"
  /\ methods' = categoryUpdater(methods, methods, methodCategories[k])
  /\ handleSubmit(files, jobDescription, methods', stepAfterUpdater(methods'))
  /\ closureStep' = currentStep'
  /\ UNCHANGED << displayVars, files, jobDescription >>

\* The submit button of the form.
onSubmit ==
  /\ page = "predict"
  /\ ~disabled
  /\ handleSubmit(files, jobDescription, methods, currentStep)
  /\ closureStep' = currentStep'
  /\ UNCHANGED << displayVars, files, jobDescription, methods >>

\* React commits the render of the state that handleSubmit or onDrop left
\* from a promise callback: the handlers now see the current step.
render ==
  /\ page = "predict"
  /\ closureStep /= currentStep
  /\ closureStep' = currentStep
  /\ UNCHANGED << displayVars, viewMode, files, jobDescription, methods, loadingPredict,
                  currentStep, alertText, posts, inflight >>

\* A handleSubmit that calls setLoading(false) at the end of its try block
\* only (mutation of loadingAfter).
loadingAfterTry(o) == o.kind /= "ok"

\* handleSubmit: finally { setLoading(false) }, whatever the outcome o.
loadingAfter(o) == FALSE

\* A catch block that calls setResults(null) (mutation of resultsAfterCatch).
resultsAfterCatchCleared(prev) == None

\* handleSubmit's catch block has no setResults: the state keeps its value.
resultsAfterCatch(prev) == prev

\* The transport settles one outstanding request with o: processResumes
\* returns response.data or rejects, and handleSubmit runs on from its await;
\* the render of the state it sets follows later.
\* A body whose `results` is no array makes the render of ResultDisplay throw
\* at results.results.forEach.
respond(o) ==
  /\ page = "predict"
  /\ inflight > 0
  /\ inflight' = inflight - 1
  /\ loadingPredict' = loadingAfter(o)
  /\ IF o.kind = "ok"
       THEN /\ resultsShape' = o.body
            /\ results' = IF o.body = "ResultSet" THEN Some(ServerResults) ELSE None
            /\ summary' = IF o.body = "ResultSet" THEN ServerSummary ELSE None
            /\ currentStep' = 5
            /\ page' = IF o.body = "notSequence" THEN "crashed" ELSE page
            /\ UNCHANGED alertText
       ELSE /\ alertText' = failureAlert(processResumesError(o))
            /\ currentStep' = 1
            /\ results' = resultsAfterCatch(results)
            /\ UNCHANGED << page, summary, resultsShape >>
  /\ UNCHANGED << viewMode, storeDocs, user, ranking, details, loading,
                  csvName, csvRows, csvContent, files, jobDescription, methods, posts,
                  closureStep, otherPages >>

\* --------------------------------------------------------- specifications

Next ==
  \/ \E m \in {"cards", "table"} : setViewMode(m)
  \/ exportToCSV
  \/ \E u \in {"none", "unverified", "verified"} :
       \E outcome \in StoreOutcomes(u) : onAuthStateChanged(u, outcome)
  \/ exportDetailsToCSV

\* Ranking: candidates differ in rank, final_score and error.
SpecRank == InitRank /\ [][Next]_vars

\* Algorithm universe: candidates differ in the keys of `scores`.
SpecKeys == InitKeys /\ [][Next]_vars

\* Score cells: candidates differ in the keys and the values of `scores`.
SpecAlgs == InitAlgs /\ [][Next]_vars

\* CSV quoting: candidates differ in their filenames.
SpecCsv == InitCsv /\ [][Next]_vars

\* Summary tiles: the payload differs in its summary and in its candidates.
SpecSummary == InitSummary /\ [][Next]_vars

\* The predict page as it is opened: an empty form and no results.
InitPredict ==
  /\ page = "predict"
  /\ results = None
  /\ summary = None
  /\ resultsShape = "null"
  /\ viewMode = "cards"
  /\ storeDocs = <<>>
  /\ user = "none"
  /\ ranking = FALSE
  /\ details = <<>>
  /\ loading = TRUE
  /\ csvName = "none"
  /\ csvRows = <<>>
  /\ csvContent = <<>>
  /\ files = 0
  /\ jobDescription = <<>>
  /\ methods = DefaultMethods
  /\ loadingPredict = FALSE
  /\ currentStep = 1
  /\ closureStep = 1
  /\ alertText = <<>>
  /\ posts = 0
  /\ inflight = 0
  /\ OthersIdle

\* The predict page with ResultDisplay inside it.
NextPredict ==
  \/ onDrop
  \/ \E submits \in BOOLEAN : clearAll(submits)
  \/ \E v \in JobTexts : onChangeJobDescription(v)
  \/ \E ms \in QuickSelects : quickSelect(ms)
  \/ onSubmit
  \/ render
  \/ \E o \in Outcomes : respond(o)
  \/ \E m \in {"cards", "table"} : setViewMode(m)
  \/ exportToCSV

\* Job submission: the form, the request and its outcomes.
SpecSubmit == InitPredict /\ [][NextPredict]_vars

\* Job submission where every request sent is settled: it completes, fails or
\* is aborted by axios after its timeout of 300000 ms.
SpecSettle == SpecSubmit /\ WF_vars(\E o \in Outcomes : respond(o))

\* ------------------------------------------------- reading the CSV back

\* A standard CSV reader (comma delimiter, double quote as quote character, a
\* doubled quote inside a quoted field is one quote, a character after a
\* closing quote is kept as data).  The reader is in state "record" at the
\* start of a record, "field" at the start of a field, "plain" inside an
\* unquoted field, "quoted" inside a quoted field and "closing" after a quote
\* inside a quoted field.
readerStep(st, c) ==
  IF st = "quoted" THEN (IF c = "\"" THEN "closing" ELSE "quoted")
  ELSE IF c = "\"" THEN (IF st = "plain" THEN "plain" ELSE "quoted")
  ELSE IF c = "," THEN "field"
  ELSE IF c = "\n" THEN "record"
  ELSE "plain"

\* The reader's state after each character of text[lo..hi], entered in state st.
RECURSIVE readerStates(_, _, _, _)
readerStates(text, lo, hi, st) ==
  IF lo > hi THEN <<>>
  ELSE IF lo = hi THEN << readerStep(st, text[lo]) >>
  ELSE LET mid == (lo + hi) \div 2
           left == readerStates(text, lo, mid, st)
       IN  left \o readerStates(text, mid + 1, hi, Last(left))

\* The elements of a finite set of numbers in increasing order.
Ascending(S) ==
  [k \in 1..Cardinality(S) |-> CHOOSE x \in S : Cardinality({y \in S : y < x}) = k - 1]

parseCSV(text) ==
  LET n == Len(text)
      after == readerStates(text, 1, n, "record")
      before(i) == IF i = 1 THEN "record" ELSE after[i - 1]
      isRecordEnd(i) == before(i) /= "quoted" /\ text[i] = "\n"
      isFieldEnd(i) == before(i) /= "quoted" /\ text[i] = ","
      isData(i) ==
        IF text[i] = "\"" THEN before(i) \in {"closing", "plain"}
        ELSE before(i) = "quoted" \/ text[i] \notin {",", "\n"}
      \* the record or field cut out of from+1 .. to-1 by the ends in cuts
      pieces(cuts, from, to) ==
        LET ends == Ascending(cuts \cup {from, to})
        IN  [k \in 1..Len(ends) - 1 |-> << ends[k], ends[k + 1] >>]
      fieldOf(span) ==
        LET at == Ascending({i \in span[1] + 1 .. span[2] - 1 : isData(i)})
        IN  [k \in 1..Len(at) |-> text[at[k]]]
      recordOf(span) ==
        IF span[2] = span[1] + 1 THEN <<>>
        ELSE LET spans == pieces({i \in span[1] + 1 .. span[2] - 1 : isFieldEnd(i)},
                                 span[1], span[2])
             IN  [k \in 1..Len(spans) |-> fieldOf(spans[k])]
      recordSpans ==
        pieces({i \in 1..n : isRecordEnd(i)}, 0, n + 1)
      kept == IF n > 0 /\ isRecordEnd(n) THEN Front(recordSpans) ELSE recordSpans
  IN  IF n = 0 THEN <<>> ELSE [k \in 1..Len(kept) |-> recordOf(kept[k])]

\* ------------------------------------------------------------- what is shown

liveShown == page = "predict" /\ IsSome(results) /\ ~loadingPredict

\* The historical view has fetched the detail records and renders its table.
histShown ==
  page = "details" /\ ~loading /\ user = "verified" /\ ranking /\ Len(details) /= 0

\* The candidates in the order the current view lists them.
shownCands ==
  IF liveShown THEN Get(results) ELSE IF histShown THEN details ELSE <<>>

\* The rows the current view renders.
shownRows ==
  IF liveShown THEN liveRows(Get(results))
  ELSE IF histShown THEN histRows(details) ELSE <<>>

\* The result set behind the current view, as the backend or the store gave it.
sourceCands == IF page = "predict" /\ IsSome(results) THEN Get(results) ELSE storeDocs

\* The candidates the last export wrote, in the order of its rows.
exportedCands ==
  IF csvName = "resume_ranking_results" THEN Get(results)
  ELSE IF csvName = "ranking" THEN details ELSE <<>>

\* The historical view renders its summary tiles (with or without detail rows).
histPanelShown == page = "details" /\ ~loading /\ user = "verified" /\ ranking

\* The candidates behind the summary tiles of the current view.
panelShown == liveShown \/ histPanelShown
panelCands == IF liveShown THEN Get(results) ELSE IF histPanelShown THEN details ELSE <<>>

\* The text of the Avg Score tile.
avgShown == avgScore(panelCands)

\* The numbers of the Total Resumes, Processed and AI Methods tiles of the live view.
totalShown == totalTile(summary)
processedShown == processedTile(summary)
methodsShown == methodsTile(summary, Get(results))

idsOf(s) == [i \in 1..Len(s) |-> s[i].id]

\* s lists every element of the set ids exactly once.
ExactlyOnce(s, ids) == Range(s) = ids /\ Len(s) = Cardinality(ids)

\* a has to be listed before b under the final_score rule: a higher score, a
\* score against none, and the payload order among equals.
FinalBefore(a, b) ==
  \/ IsSome(a.final_score) /\ ~IsSome(b.final_score)
  \/ IsSome(a.final_score) /\ IsSome(b.final_score) /\ Get(a.final_score) > Get(b.final_score)
  \/ a.final_score = b.final_score /\ a.id < b.id

\* ------------------------------------------------------------------ claims

\* C1: when not every candidate carries a rank, the listed sequence is ordered
\* by final_score descending, candidates without a final_score come after all
\* scored ones, and equal candidates keep their payload order.
Cex_C1 ==
  (\E i \in 1..Len(shownCands) : shownCands[i].rank = None)
    => \A i, j \in 1..Len(shownCands) :
         i < j => ~FinalBefore(shownCands[j], shownCands[i])

\* C2: when every candidate carries a rank, the listed sequence is ordered by
\* rank ascending, whatever order the backend or the store gave.
Cex_C2 ==
  (\A i \in 1..Len(shownCands) : IsSome(shownCands[i].rank))
    => \A i, j \in 1..Len(shownCands) :
         i < j => Get(shownCands[i].rank) <= Get(shownCands[j].rank)

\* C3: every listed candidate carries a rank and the ranks read 1..N in the
\* order listed: the i-th row shows "#i".
Cex_C3 ==
  \A i \in 1..Len(shownRows) : shownRows[i].rank = << "#" >> \o NatToStr(i)

\* C4: the sort rule of the historical view is idempotent: sorting the detail
\* records held in state again changes neither their order nor their ranks.
Thm_C4 == sortByRank(details) = details

\* C4 case: two fetched records that tie on (rank || 0), returned by the store
\* against their payload order.
Wit_C4 ==
  /\ histShown
  /\ \E i, j \in 1..Len(details) :
       i < j /\ rankKey(details[i]) = rankKey(details[j]) /\ details[i].id > details[j].id

\* C5: every candidate of the result set is listed exactly once by the view,
\* and the export writes exactly one row for each, in the order listed, with
\* or without an `error`.
Thm_C5 ==
  /\ (liveShown \/ histShown) =>
       ExactlyOnce(idsOf(shownRows), Range(idsOf(sourceCands)))
  /\ csvName /= "none" =>
       /\ Len(csvRows) = Len(sourceCands) + 1
       /\ ExactlyOnce(idsOf(exportedCands), Range(idsOf(sourceCands)))
       /\ \A i \in 1..Len(exportedCands) :
            csvRows[i + 1][2] = exportedCands[i].filename

\* C5 case: the live view in table mode has exported a result set that holds a
\* candidate with an error and one without.
Wit_C5 ==
  /\ liveShown
  /\ viewMode = "table"
  /\ csvName = "resume_ranking_results"
  /\ \E i, j \in 1..Len(sourceCands) :
       IsSome(sourceCands[i].error) /\ sourceCands[j].error = None

\* The algorithm universe of a result set: every key of any `scores` mapping.
UniverseOf(rs) == UNION {Range(keysOf(rs[i])) : i \in 1..Len(rs)}

\* s is strictly increasing in string order (sorted, no duplicates).
StrictlySorted(s) == \A i, j \in 1..Len(s) : i < j => StrLess(s[i], s[j])

Permuted(rs, p) == [i \in 1..Len(rs) |-> rs[p[i]]]

\* C6: getAlgorithms returns exactly the keys that appear in any candidate's
\* `scores`, without duplicates and in lexicographic order; every permutation
\* of the candidates gives the same sequence, no candidates give the empty
\* one, and the exported header carries one column per element, in that order.
Thm_C6 ==
  liveShown =>
    LET rs == Get(results)
        out == getAlgorithms(rs)
    IN  /\ Range(out) = UniverseOf(rs)
        /\ StrictlySorted(out)
        /\ \A p \in Perms(Len(rs)) : getAlgorithms(Permuted(rs, p)) = out
        /\ rs = <<>> => out = <<>>
        /\ csvName = "resume_ranking_results" =>
             LET header == parseCSV(csvContent)[1]
             IN  SubSeq(header, 3, Len(header) - 2) = algHeaders(out)

\* C6 case: an exported result set in which a key appears only on a candidate
\* other than the first and the keys arrive out of lexicographic order.
Wit_C6 ==
  /\ liveShown
  /\ csvName = "resume_ranking_results"
  /\ LET rs == Get(results)
     IN  /\ Len(rs) >= 2
         /\ UniverseOf(rs) /= Range(keysOf(rs[1]))
         /\ collectKeys(<<>>, rs) /= getAlgorithms(rs)

\* C7: in the historical view the algorithm columns of the table and of the
\* exported CSV are the union of the keys over all detail records.
Cex_C7 ==
  histShown =>
    /\ Range(allAlgorithmsOf(details)) = UniverseOf(details)
    /\ csvName = "ranking" =>
         LET header == parseCSV(csvContent)[1]
         IN  {header[k] : k \in 3..Len(header) - 1}
               = {toUpperCase(a) \o PercentSuffix : a \in UniverseOf(details)}

\* C8: in the exported CSV and in the table a score cell is N/A exactly when
\* the candidate lacks that score; a score that is present, 0 included, is
\* rendered as score*100 to one decimal place.
Cex_C8 ==
  liveShown =>
    LET rs == Get(results)
        algs == getAlgorithms(rs)
        Cell(o, text) == IF IsSome(o) THEN text = toFixed1(Get(o)) ELSE text = NA
    IN  /\ viewMode = "table" =>
             \A i \in 1..Len(rs) :
               /\ \A j \in 1..Len(algs) : Cell(scoreOf(rs[i], algs[j]), shownRows[i].cells[j])
               /\ Cell(rs[i].final_score, shownRows[i].final)
        /\ csvName = "resume_ranking_results" =>
             LET rows == parseCSV(csvContent)
             IN  \A i \in 1..Len(rs) :
                   /\ \A j \in 1..Len(algs) : Cell(scoreOf(rs[i], algs[j]), rows[i + 1][2 + j])
                   /\ Cell(rs[i].final_score, rows[i + 1][3 + Len(algs)])

\* C9: every field of the exported CSV is quoted with its inner quotes doubled:
\* read back, each row has the columns of the header and its second field is
\* the candidate's filename, character for character.
Cex_C9 ==
  csvName /= "none" =>
    LET rows == parseCSV(csvContent)
    IN  /\ Len(rows) = Len(exportedCands) + 1
        /\ \A i \in 1..Len(exportedCands) :
             /\ Len(rows[i + 1]) = Len(rows[1])
             /\ rows[i + 1][2] = exportedCands[i].filename

\* C10: the exported CSV, of the live view and of the historical view, has
\* len(results)+1 rows of 2 + |universe| + 2 columns each, headed Rank,
\* Filename, one column per algorithm of the universe in getAlgorithms order,
\* Final Score (%), Skills Count.
Cex_C10 ==
  csvName /= "none" =>
    LET rows == parseCSV(csvContent)
        universe == getAlgorithms(sourceCands)
    IN  /\ Len(rows) = Len(sourceCands) + 1
        /\ \A r \in 1..Len(rows) : Len(rows[r]) = 2 + Len(universe) + 2
        /\ rows[1] = << RankHeader, FilenameHeader >> \o algHeaders(universe)
                       \o << FinalScoreHeader, SkillsCountHeader >>


\* C11: the exported CSV of the live view round-trips: read back by a standard
\* CSV reader and written again by the exporter's rules it is the same text,
\* and every cell of a score column that is not N/A is the source score of the
\* same candidate and algorithm, as a percentage with one decimal place.
Cex_C11 ==
  csvName = "resume_ranking_results" =>
    LET rows == parseCSV(csvContent)
        rs == Get(results)
        algs == getAlgorithms(rs)
        Back(cell, o) == cell /= NA => IsSome(o) /\ cell = toFixed1(Get(o))
    IN  /\ csvContentOf(rows) = csvContent
        /\ Len(rows) = Len(rs) + 1
        /\ \A i \in 1..Len(rs) :
             /\ Len(rows[i + 1]) = 4 + Len(algs)
             /\ \A j \in 1..Len(algs) : Back(rows[i + 1][2 + j], scoreOf(rs[i], algs[j]))
             /\ Back(rows[i + 1][3 + Len(algs)], rs[i].final_score)


\* The candidates of rs that have a final_score.
scored(rs) == SelectSeq(rs, LAMBDA c : IsSome(c.final_score))

RECURSIVE sumOf(_)
sumOf(rs) == IF rs = <<>> THEN 0 ELSE sumOf(Front(rs)) + Get(Last(rs).final_score)

\* C12: the Avg Score tile shows the arithmetic mean of final_score over the
\* candidates that have one: the others are in neither the sum nor the divisor.
Cex_C12 ==
  (panelShown /\ scored(panelCands) /= <<>>)
    => avgShown = percentOf(sumOf(scored(panelCands)), Len(scored(panelCands)))

\* C13: when no candidate has a final_score, an empty result set included, the
\* Avg Score tile shows the not-available marker, which is not what a result
\* set of all-zero scores shows.
Cex_C13 ==
  (panelShown /\ scored(panelCands) = <<>>)
    => /\ avgShown = NA
       /\ avgShown /= percentOf(0, 1)


\* C14: the AI Methods tile of the live view shows the number of distinct keys
\* of the candidates' scores mappings, whatever summary.algorithms_used holds.
Cex_C14 ==
  liveShown => methodsShown = Cardinality(UniverseOf(Get(results)))

\* The candidates of rs with (e = TRUE) or without (e = FALSE) an error field.
withError(rs, e) == SelectSeq(rs, LAMBDA c : IsSome(c.error) = e)

\* C15: the Processed and Total Resumes tiles show summary.successfully_processed
\* and summary.total_resumes_uploaded when the summary carries them; without a
\* summary they show the number of candidates without an error as processed and
\* the number with one as the difference to the total.
Cex_C15 ==
  liveShown =>
    IF summary = None
      THEN /\ processedShown = Len(withError(Get(results), FALSE))
           /\ totalShown - processedShown = Len(withError(Get(results), TRUE))
      ELSE /\ IsSome(Get(summary).successfully_processed)
                => processedShown = Get(Get(summary).successfully_processed)
           /\ IsSome(Get(summary).total_resumes_uploaded)
                => totalShown = Get(Get(summary).total_resumes_uploaded)


\* C16: for candidates with absent optional fields the table of the live view
\* and its CSV export show the placeholder of every absent field (N/A for a
\* score and for the rank, 0 for a count), and never the text "undefined".
Cex_C16 ==
  /\ (liveShown /\ viewMode = "table") =>
       LET rs == Get(results)
           algs == getAlgorithms(rs)
       IN  \A i \in 1..Len(rs) :
             /\ shownRows[i].rank /= << "#" >> \o Undefined
             /\ \A j \in 1..Len(algs) :
                  scoreOf(rs[i], algs[j]) = None => shownRows[i].cells[j] = NA
             /\ rs[i].final_score = None => shownRows[i].final = NA
             /\ rs[i].extracted_skills = None => shownRows[i].skills = << "0" >>
             /\ rs[i].word_count = None => shownRows[i].words = << "0" >> \o Words
  /\ csvName = "resume_ranking_results" =>
       LET rs == Get(results)
           algs == getAlgorithms(rs)
       IN  \A i \in 1..Len(rs) :
             /\ rs[i].rank = None => csvRows[i + 1][1] \in {NA, << "0" >>}
             /\ \A j \in 1..Len(algs) :
                  scoreOf(rs[i], algs[j]) = None => csvRows[i + 1][2 + j] = NA
             /\ rs[i].final_score = None => csvRows[i + 1][3 + Len(algs)] = NA
             /\ rs[i].extracted_skills = None => csvRows[i + 1][4 + Len(algs)] = << "0" >>
             /\ \A k \in 1..Len(csvRows[i + 1]) : csvRows[i + 1][k] /= Undefined


\* C17: a response body that is not a well-formed ResultSet (no `results`, or
\* `results` not a sequence) never becomes the results state of the predict
\* page and never ends a job at step 5: it is rejected with an error.
Cex_C17 ==
  /\ resultsShape \in {"null", "ResultSet"}
  /\ page /= "crashed"


\* text is the message msg behind the application's "Processing failed: " prefixes.
ShowsMessage(text, msg) ==
  /\ Len(text) >= 2
  /\ Last(text) = msg
  /\ \A i \in 1..Len(text) - 1 : text[i] = ProcessingFailed

\* C18: when a submission fails, the alert shows the file-too-large message for
\* status 413, the invalid-file-format message for 422, the server-error
\* message for a status of 500 or more and the processing-timeout message for
\* a timed out request, whatever the body of the response holds.
Thm_C18 ==
  [][\A o \in Outcomes :
       respond(o) =>
         /\ (o.kind = "http" /\ o.status = 413) => ShowsMessage(alertText', FileTooLarge)
         /\ (o.kind = "http" /\ o.status = 422) => ShowsMessage(alertText', InvalidFormat)
         /\ (o.kind = "http" /\ o.status >= 500) => ShowsMessage(alertText', ServerError)
         /\ o.kind = "timeout" => ShowsMessage(alertText', ProcessingTimeout)]_vars

\* A submission has failed with status 413 and its alert is on display.
Wit_C18 ==
  /\ ShowsMessage(alertText, FileTooLarge)
  /\ currentStep = 1
  /\ ~loadingPredict
  /\ posts > 0

\* C19: the alert of a failed submission never holds text of the response body,
\* and two failed responses that differ only in their body give the same alert.
Cex_C19 ==
  [][\A o \in Outcomes :
       (o.kind /= "ok" /\ respond(o)) =>
         /\ \A i \in 1..Len(alertText') : alertText'[i] /= BackendText
         /\ \A p \in Outcomes :
              (p.kind = o.kind /\ p.status = o.status)
                => alertText' = failureAlert(processResumesError(p))]_vars


\* C20: a failed submission is never retried by the program: a click on the
\* submit button sends exactly one POST, the step that settles a request sends
\* none, and the number of POSTs sent grows only by one and only in a step of
\* a submit event of the form.
Thm_C20 ==
  [][/\ onSubmit => posts' = posts + 1
     /\ (\E o \in Outcomes : respond(o)) => posts' = posts /\ inflight' = inflight - 1
     /\ posts' /= posts =>
          /\ posts' = posts + 1
          /\ inflight' = inflight + 1
          /\ onSubmit \/ \E ms \in QuickSelects : quickSelect(ms)]_vars

\* The only submission so far has failed and nothing is outstanding.
Wit_C20 ==
  /\ posts = 1
  /\ inflight = 0
  /\ ~loadingPredict
  /\ currentStep = 1
  /\ Len(alertText) >= 2
  /\ alertText[1] = ProcessingFailed

\* C21: at most one request is outstanding at a time: no POST is sent while
\* an earlier one awaits its response.
Cex_C21 == inflight <= 1

\* C22: a submission that has started settles: whenever loading is true it
\* becomes false again, at step 5 with the results state set or at step 1.
Thm_C22 ==
  loadingPredict ~>
    (~loadingPredict /\ ((currentStep = 5 /\ resultsShape /= "null") \/ currentStep = 1))

\* A submission has settled with a ResultSet and nothing is outstanding.
Wit_C22 ==
  /\ posts > 0
  /\ inflight = 0
  /\ ~loadingPredict
  /\ currentStep = 5
  /\ resultsShape = "ResultSet"

\* ------------------------------------------- processResumes called on its own

\* `!x || x.length === 0` reads a missing argument as an empty one.
filesOrEmpty(fs) == IF IsSome(fs) THEN Get(fs) ELSE 0

textOrEmpty(t) == IF IsSome(t) THEN Get(t) ELSE <<>>

\* The checks of processResumes with the methods checked first.
processResumesCheckMethodsFirst(args) ==
  IF Len(textOrEmpty(args.methods)) = 0 THEN Some(NewError(<< AlgorithmRequired >>))
  ELSE processResumesCheck(filesOrEmpty(args.files), textOrEmpty(args.jobDescription),
                           textOrEmpty(args.methods))

\* The checks of processResumes on arguments that may be missing.
processResumesArgsCheck(args) ==
  processResumesCheck(filesOrEmpty(args.files), textOrEmpty(args.jobDescription),
                      textOrEmpty(args.methods))

\* The arguments a caller may pass: each missing, empty or filled.
ApiFiles == {None} \cup {Some(n) : n \in 0..MaxFiles}

ApiTexts == {None} \cup {Some(t) : t \in JobTexts \cup {<< "j", " " >>}}

ApiMethods == {None, Some(<<>>), Some(DefaultMethods)} \cup {Some(ms) : ms \in QuickSelects}

\* A caller outside the pages calls processResumes with any of these arguments.
InitApi ==
  /\ InitViews(<<>>, None, "api")
  /\ apiArgs \in [files : ApiFiles, jobDescription : ApiTexts, methods : ApiMethods]
  /\ apiState = "called"
  /\ apiError = <<>>
  /\ UploadIdle /\ DashIdle /\ ProfileIdle

\* The result views and the form without the route, the alerts and the requests.
viewVars == << results, viewMode, storeDocs, user, ranking, details, loading,
               csvName, csvRows, csvContent, summary, resultsShape, files,
               jobDescription, methods, loadingPredict, currentStep, closureStep >>

\* What a call of processResumes leaves alone.
apiFrame == << page, viewVars, alertText, apiArgs, uploadVars, dashVars, profileVars >>

\* processResumes up to its await: the checks, then the POST.
processResumes ==
  /\ page = "api" /\ apiState = "called"
  /\ LET failed == processResumesArgsCheck(apiArgs)
     IN IF IsSome(failed)
          THEN /\ apiState' = "rejected"
               /\ apiError' = Get(failed).message
               /\ UNCHANGED << posts, inflight >>
          ELSE /\ apiState' = "sent"
               /\ posts' = posts + 1
               /\ inflight' = inflight + 1
               /\ UNCHANGED apiError
  /\ UNCHANGED apiFrame

\* processResumes after its await: return response.data, or the catch block.
processResumesSettle(o) ==
  /\ page = "api" /\ apiState = "sent"
  /\ inflight' = inflight - 1
  /\ IF o.kind = "ok"
       THEN apiState' = "resolved" /\ UNCHANGED apiError
       ELSE apiState' = "rejected" /\ apiError' = processResumesError(o).message
  /\ UNCHANGED << apiFrame, posts >>

NextApi ==
  \/ processResumes
  \/ \E o \in Outcomes : processResumesSettle(o)

\* The API client alone: callers differ in the arguments they pass.
SpecApi == InitApi /\ [][NextApi]_vars

\* C23: once processResumes has run its checks, the call was rejected without
\* any request and with the error of the first failing check, in the order
\* files (missing or empty), job description (missing, empty or blank),
\* methods (missing or empty); a request was sent only when all three
\* arguments are non-empty.
Thm_C23 ==
  (page = "api" /\ apiState /= "called") =>
    LET noFiles == apiArgs.files = None \/ apiArgs.files = Some(0)
        noText == \/ apiArgs.jobDescription = None
                  \/ \A i \in 1..Len(Get(apiArgs.jobDescription)) :
                       Get(apiArgs.jobDescription)[i] = " "
        noMethods == apiArgs.methods = None \/ apiArgs.methods = Some(<<>>)
        refused(m) == apiState = "rejected" /\ apiError = << m >> /\ posts = 0
    IN  IF noFiles THEN refused(NoFilesProvided)
        ELSE IF noText THEN refused(JobDescriptionRequired)
        ELSE IF noMethods THEN refused(AlgorithmRequired)
        ELSE posts = 1

\* A call with an empty file list, a blank description and no methods was
\* rejected for its files, without a request.
Wit_C23 ==
  /\ page = "api" /\ apiState = "rejected" /\ posts = 0
  /\ apiArgs.files = Some(0)
  /\ apiArgs.jobDescription = Some(<< " " >>)
  /\ apiArgs.methods = None
  /\ apiError = << NoFilesProvided >>

\* C24: on the predict page currentStep is in 1..5, and it is 4 exactly when
\* loading is true.
Cex_C24 ==
  page = "predict" => (currentStep \in 1..5 /\ (currentStep = 4 <=> loadingPredict))

\* MethodSelector inside the page: its checkboxes and buttons.
NextMethods ==
  \/ \E id \in ToggledIds : toggleMethod(id)
  \/ \E k \in 1..Len(methodCategories) : selectCategory(k)
  \/ \E ms \in QuickSelects : quickSelect(ms)

\* The algorithm selection alone: the form is otherwise left as opened.
SpecMethods == InitPredict /\ [][NextMethods]_vars

\* The predict page with the checkboxes of MethodSelector.
NextSelect ==
  \/ NextPredict
  \/ \E id \in ToggledIds : toggleMethod(id)

\* The whole form: submissions between the changes of the selection.
SpecSelect == InitPredict /\ [][NextSelect]_vars

\* C25: a change of the algorithm selection that leaves it empty does not
\* raise currentStep to 3 or more.
Cex_C25 ==
  [][(methods' /= methods /\ Len(methods') = 0) =>
       (currentStep' >= 3 => currentStep >= 3)]_vars

\* C26: a request that fails leaves the results state as it was, and the
\* results state changes only when a request succeeds.
Thm_C26 ==
  [][/\ (inflight' < inflight /\ currentStep' = 1) =>
          UNCHANGED << results, summary, resultsShape >>
     /\ (<< results, summary, resultsShape >>' /= << results, summary, resultsShape >>) =>
          (inflight' < inflight /\ currentStep' = 5 /\ alertText' = alertText)]_vars

\* A later job has failed and the results of the earlier one are still shown.
Wit_C26 ==
  /\ page = "predict" /\ posts = 2 /\ inflight = 0 /\ ~loadingPredict
  /\ currentStep = 1
  /\ Len(alertText) > 0 /\ alertText[1] = ProcessingFailed
  /\ results = Some(ServerResults) /\ resultsShape = "ResultSet"

\* ------------------------------------------------------- FileUpload on its own

SomeRejected == "Some files were rejected. Please upload only PDF, DOCX, or DOC files."

\* The ids of the next n files the dropzone accepts.
newIds(n) == [k \in 1..n |-> dropped + k]

\* list.filter((_, i) => i !== index), index counted from 1 here.
removeAt(list, index) ==
  [k \in 1..(Len(list) - 1) |-> IF k < index THEN list[k] ELSE list[k + 1]]

\* FileUpload mounted with an empty list by a parent that only holds the list.
InitFiles ==
  /\ InitViews(<<>>, None, "upload")
  /\ ApiIdle /\ UploadIdle /\ DashIdle /\ ProfileIdle

\* What FileUpload leaves alone.
filesFrame == << page, viewVars, posts, inflight, apiVars, dashVars, profileVars >>

\* FileUpload.onDrop, called by the dropzone with n accepted files once it
\* has read a drop: newFiles = [...files, ...acceptedFiles] from the files of
\* the render the callback belongs to; setFiles(newFiles); the alert when
\* files were rejected.  The render follows later.
onDropFiles(n, rejected) ==
  /\ page = "upload"
  /\ n > 0 \/ rejected
  /\ dropped + n <= MaxDrops
  /\ fileList' = closureFiles \o newIds(n)
  /\ keptFiles' = keptFiles \o newIds(n)
  /\ dropped' = dropped + n
  /\ alertText' = IF rejected THEN << SomeRejected >> ELSE alertText
  /\ UNCHANGED << filesFrame, closureFiles >>

\* React commits the render of the list: the callbacks now hold it.
renderFiles ==
  /\ page = "upload"
  /\ closureFiles /= fileList
  /\ closureFiles' = fileList
  /\ UNCHANGED << filesFrame, fileList, keptFiles, dropped, alertText >>

\* FileUpload.removeFile: the X button of the file shown at index.
removeFile(index) ==
  /\ page = "upload"
  /\ index \in 1..Len(closureFiles)
  /\ fileList' = removeAt(closureFiles, index)
  /\ closureFiles' = fileList'
  /\ keptFiles' = SelectSeq(keptFiles, LAMBDA f : f /= closureFiles[index])
  /\ UNCHANGED << filesFrame, dropped, alertText >>

\* FileUpload: the Clear All button, shown while files.length > 0.
clearAllFiles ==
  /\ page = "upload"
  /\ Len(closureFiles) > 0
  /\ fileList' = <<>>
  /\ closureFiles' = <<>>
  /\ keptFiles' = <<>>
  /\ UNCHANGED << filesFrame, dropped, alertText >>

NextFiles ==
  \/ \E n \in 0..MaxDropSize : \E rejected \in BOOLEAN : onDropFiles(n, rejected)
  \/ renderFiles
  \/ \E index \in 1..MaxDrops : removeFile(index)
  \/ clearAllFiles

\* The file list: drops, removals and clears in any order.
SpecFiles == InitFiles /\ [][NextFiles]_vars

\* C27: the file list holds exactly the accepted files that were not removed
\* or cleared since, in drop order.
Cex_C27 == page = "upload" => fileList = keptFiles

\* --------------------------------------------------------------- DashboardPage

\* What auth.onAuthStateChanged reports: nobody, or a user with or without a
\* verified email.
DashUsers ==
  {None} \cup {Some([uid |-> u, emailVerified |-> v]) : u \in Uids, v \in BOOLEAN}

\* The dashboard as it is opened.
InitDash ==
  /\ InitViews(<<>>, None, "dashboard")
  /\ ApiIdle /\ UploadIdle /\ DashIdle /\ ProfileIdle

\* What DashboardPage leaves alone.
dashFrame == << page, viewVars, alertText, posts, inflight, apiVars, uploadVars,
                profileVars >>

\* The main view of the dashboard, below the three early returns: loading,
\* !user, !user.emailVerified.
dashShown ==
  /\ page = "dashboard"
  /\ ~dashLoading
  /\ IsSome(dashUser)
  /\ Get(dashUser).emailVerified

\* The onAuthStateChanged callback up to its await: setUser(u), then
\* fetchRankings(u.uid) up to await getDocs(q) for a verified user, else
\* setLoading(false).
dashAuthStateChanged(u) ==
  /\ page = "dashboard"
  /\ dashUser' = u
  /\ IF IsSome(u) /\ Get(u).emailVerified
       THEN /\ fetches[Get(u).uid] < MaxFetches
            /\ dashLoading' = TRUE
            /\ fetches' = [fetches EXCEPT ![Get(u).uid] = @ + 1]
       ELSE /\ dashLoading' = FALSE
            /\ UNCHANGED fetches
  /\ UNCHANGED << dashFrame, rankings, sortOrder >>

\* fetchRankings(userId) after its await: setRankings(rankingsData), or the
\* catch block that only logs; finally setLoading(false).
fetchRankingsSettle(userId, ok) ==
  /\ page = "dashboard"
  /\ fetches[userId] > 0
  /\ fetches' = [fetches EXCEPT ![userId] = @ - 1]
  /\ rankings' = IF ok THEN Some(userId) ELSE rankings
  /\ dashLoading' = FALSE
  /\ UNCHANGED << dashFrame, dashUser, sortOrder >>

\* The Latest / Oldest buttons of the main view.
setSortOrder(order) ==
  /\ dashShown
  /\ sortOrder' = order
  /\ UNCHANGED << dashFrame, dashUser, rankings, dashLoading, fetches >>

NextDash ==
  \/ \E u \in DashUsers : dashAuthStateChanged(u)
  \/ \E userId \in Uids : \E ok \in BOOLEAN : fetchRankingsSettle(userId, ok)
  \/ \E order \in {"latest", "oldest"} : setSortOrder(order)

\* The dashboard: users sign in and out while fetches are pending.
SpecDash == InitDash /\ [][NextDash]_vars

\* C28: while the dashboard shows its main view, the user has a verified
\* email and the list in state is the initial empty one or was fetched for
\* that user.
Cex_C28 ==
  dashShown => (rankings = None \/ rankings = Some(Get(dashUser).uid))

\* ----------------------------------------------------------------- ProfilePage

VerificationSent == "Verification email sent! Please check your inbox."
VerificationFailed == "Failed to send verification email."
AccountDeleted == "Account deleted successfully."
PleaseRelogin == "Please re-login and try again to delete your account."
FailedToDelete == "Failed to delete account."
SdkText == "the message of the SDK's error"

\* The errors deleteDoc and deleteUser reject with: a code and a message, the
\* message possibly empty.
SdkErrors ==
  { [code |-> c, message |-> m] :
      c \in {"auth/requires-recent-login", "unavailable"}, m \in {None, Some(SdkText)} }

\* What those calls settle with: success (code "ok") or an error.
SdkOutcomes == {[code |-> "ok", message |-> None]} \cup SdkErrors

\* catch (err): setError(err.code === 'auth/requires-recent-login' ? ... :
\* err.message || 'Failed to delete account.')
deleteError(err) ==
  IF err.code = "auth/requires-recent-login" THEN << PleaseRelogin >>
  ELSE IF IsSome(err.message) THEN << Get(err.message) >>
  ELSE << FailedToDelete >>

\* The texts setError gets from handleDeleteAccount.
DeleteErrors == {deleteError(err) : err \in SdkErrors}

\* The profile page as it is opened by a user who has an account and a
\* stored document.
InitProfile ==
  /\ InitViews(<<>>, None, "profile")
  /\ ApiIdle /\ UploadIdle /\ DashIdle /\ ProfileIdle

\* What ProfilePage leaves alone.
profileFrame == << viewVars, alertText, posts, inflight, apiVars, uploadVars, dashVars >>

\* The page below `if (loading)`, for a user in state.
profileShown == page = "profile" /\ ~profileLoading /\ profileUser /= "none"

\* The onAuthStateChanged callback: setUser(currentUser) or
\* router.push('/login'); setLoading(false).
profileAuthStateChanged(u) ==
  /\ page = "profile"
  /\ u /= "none" => authAccount
  /\ IF u /= "none"
       THEN profileUser' = u /\ UNCHANGED page
       ELSE page' = "login" /\ UNCHANGED profileUser
  /\ profileLoading' = FALSE
  /\ UNCHANGED << profileFrame, sendingVerification, deletingAccount, deleteStage,
                  confirmAnswer, profileMessage, profileError, userDoc, authAccount >>

\* handleSendVerification up to its await.
handleSendVerification ==
  /\ profileShown
  /\ profileUser = "unverified"
  /\ ~sendingVerification
  /\ sendingVerification' = TRUE
  /\ profileMessage' = <<>>
  /\ profileError' = <<>>
  /\ UNCHANGED << profileFrame, page, profileUser, profileLoading, deletingAccount,
                  deleteStage, confirmAnswer, userDoc, authAccount >>

\* handleSendVerification after its await.
sendVerificationSettle(ok) ==
  /\ page = "profile"
  /\ sendingVerification
  /\ IF ok
       THEN profileMessage' = << VerificationSent >> /\ UNCHANGED profileError
       ELSE profileError' = << VerificationFailed >> /\ UNCHANGED profileMessage
  /\ sendingVerification' = FALSE
  /\ UNCHANGED << profileFrame, page, profileUser, profileLoading, deletingAccount,
                  deleteStage, confirmAnswer, userDoc, authAccount >>

\* handleDeleteAccount up to its first await: window.confirm, then
\* setDeletingAccount(true), setMessage(''), setError(''), deleteDoc(...).
handleDeleteAccount(answer) ==
  /\ profileShown
  /\ ~deletingAccount
  /\ confirmAnswer' = answer
  /\ IF answer = "cancel"
       THEN UNCHANGED << deletingAccount, profileMessage, profileError, deleteStage >>
       ELSE /\ deletingAccount' = TRUE
            /\ profileMessage' = <<>>
            /\ profileError' = <<>>
            /\ deleteStage' = "deleteDoc"
  /\ UNCHANGED << profileFrame, page, profileUser, profileLoading, sendingVerification,
                  userDoc, authAccount >>

\* await deleteDoc(doc(db, 'users', user.uid)) settles: on success the
\* document is gone and deleteUser(user) is called; else catch and finally.
deleteDocSettle(outcome) ==
  /\ page = "profile"
  /\ deleteStage = "deleteDoc"
  /\ IF outcome.code = "ok"
       THEN /\ userDoc' = FALSE
            /\ deleteStage' = "deleteUser"
            /\ UNCHANGED << profileError, deletingAccount >>
       ELSE /\ profileError' = deleteError(outcome)
            /\ deletingAccount' = FALSE
            /\ deleteStage' = "idle"
            /\ UNCHANGED userDoc
  /\ UNCHANGED << profileFrame, page, profileUser, profileLoading, sendingVerification,
                  confirmAnswer, profileMessage, authAccount >>

\* await deleteUser(user) settles: on success the account is gone,
\* setMessage('Account deleted successfully.') and router.push('/signup');
\* else catch; finally setDeletingAccount(false).
deleteUserSettle(outcome) ==
  /\ page = "profile"
  /\ deleteStage = "deleteUser"
  /\ IF outcome.code = "ok"
       THEN /\ authAccount' = FALSE
            /\ profileMessage' = << AccountDeleted >>
            /\ page' = "signup"
            /\ UNCHANGED profileError
       ELSE /\ profileError' = deleteError(outcome)
            /\ UNCHANGED << authAccount, profileMessage, page >>
  /\ deletingAccount' = FALSE
  /\ deleteStage' = "idle"
  /\ UNCHANGED << profileFrame, profileUser, profileLoading, sendingVerification,
                  confirmAnswer, userDoc >>

NextProfile ==
  \/ \E u \in {"none", "unverified", "verified"} : profileAuthStateChanged(u)
  \/ handleSendVerification
  \/ \E ok \in BOOLEAN : sendVerificationSettle(ok)
  \/ \E answer \in {"cancel", "ok"} : handleDeleteAccount(answer)
  \/ \E outcome \in SdkOutcomes : deleteDocSettle(outcome)
  \/ \E outcome \in SdkOutcomes : deleteUserSettle(outcome)

\* The profile page: verification mails and account deletions.
SpecProfile == InitProfile /\ [][NextProfile]_vars

\* C29: once handleDeleteAccount has ended, an error message of the deletion
\* on the page means that the document and the account both still exist, and
\* the document is gone only if the account is gone too.
Cex_C29 ==
  deleteStage = "idle" =>
    /\ (page = "profile" /\ profileError \in DeleteErrors) => (userDoc /\ authAccount)
    /\ ~userDoc => ~authAccount

\* The ids of category k.
categoryIdsOf(k) == Range(methodCategories[k])

\* C30: the selection never holds an id twice; toggleMethod(id) flips the
\* membership of id and of no other id; selectCategory changes the membership
\* of ids of its category only.
Thm_C30 ==
  [][/\ \A i, j \in 1..Len(methods') : methods'[i] = methods'[j] => i = j
     /\ \A id \in ToggledIds :
          toggleMethod(id) =>
            /\ (id \in Range(methods')) = (id \notin Range(methods))
            /\ Range(methods') \ {id} = Range(methods) \ {id}
     /\ \A k \in 1..Len(methodCategories) :
          selectCategory(k) =>
            Range(methods') \ categoryIdsOf(k) = Range(methods) \ categoryIdsOf(k)]_vars

\* 'bert' was unticked and the first category then selected as a whole.
Wit_C30 ==
  /\ page = "predict"
  /\ methods = << "cosine", "bert", "distilbert", "sbert" >>

====
